---- MODULE Spec2Model ----
(***************************************************************************)
(* Model of ddgs.similarity.SimpleFilterRanker: the query tokenizer and    *)
(* the priority/bucket ranker.                                             *)
(*                                                                         *)
(* Representation.  A Python str is a sequence of one-character strings.   *)
(* A doc (a Python dict) is a function from the keys it holds to values;   *)
(* a key that is absent from the dict is absent from DOMAIN.  Text values  *)
(* are strs; the value of "engine_priority" is either None (the empty      *)
(* tuple) or a number n, written Num(n) = <<n>>, so that the two kinds of  *)
(* value can be told apart the way Python tells None from an int.          *)
(***************************************************************************)
EXTENDS Integers, Sequences, FiniteSets, TLC

VARIABLES self, docs, query, tokens, ret, called

vars == <<self, docs, query, tokens, ret, called>>

(***************************************************************************)
(* Bounds of the model.                                                    *)
(***************************************************************************)
MaxDocs == 3
MaxQueryLen == 3

(***************************************************************************)
(* Python values.                                                          *)
(***************************************************************************)
None == <<>>
Num(n) == <<n>>
Val(v) == v[1]

Range(s) == {s[i] : i \in 1..Len(s)}

\* dict.get(key, default)
Get(d, key, default) == IF key \in DOMAIN d THEN d[key] ELSE default

(***************************************************************************)
(* str.lower(), restricted to ASCII letters.                               *)
(***************************************************************************)
UpperChars == <<"A","B","C","D","E","F","G","H","I","J","K","L","M",
                "N","O","P","Q","R","S","T","U","V","W","X","Y","Z">>
LowerChars == <<"a","b","c","d","e","f","g","h","i","j","k","l","m",
                "n","o","p","q","r","s","t","u","v","w","x","y","z">>
DigitChars == <<"0","1","2","3","4","5","6","7","8","9">>

LowerMap == [c \in {UpperChars[i] : i \in 1..Len(UpperChars)} |->
               LowerChars[CHOOSE i \in 1..Len(UpperChars) : UpperChars[i] = c]]

LowerChar(c) == IF c \in DOMAIN LowerMap THEN LowerMap[c] ELSE c

lower(s) == [i \in 1..Len(s) |-> LowerChar(s[i])]

\* the class \w of the regular expression, restricted to ASCII
WordChars ==
    Range(UpperChars) \cup Range(LowerChars) \cup Range(DigitChars) \cup {"_"}
IsWordChar(c) == c \in WordChars

(***************************************************************************)
(* _splitter.split(s) with _splitter = re.compile(r"\W+"): the pieces of s *)
(* between maximal runs of non-word characters.  A run at the start or the *)
(* end of s, and the empty s itself, leave an empty piece.                 *)
(***************************************************************************)
RECURSIVE SplitFrom(_, _, _, _)
SplitFrom(s, i, cur, inRun) ==
    IF i > Len(s) THEN <<cur>>
    ELSE IF IsWordChar(s[i]) THEN SplitFrom(s, i + 1, Append(cur, s[i]), FALSE)
    ELSE IF inRun THEN SplitFrom(s, i + 1, cur, TRUE)
    ELSE <<cur>> \o SplitFrom(s, i + 1, <<>>, TRUE)

split(s) == SplitFrom(s, 1, <<>>, FALSE)

\* SimpleFilterRanker.__init__
DefaultMinTokenLength == 3
NewRanker(min_token_length) == [min_token_length |-> min_token_length]

\* a tokenizer that keeps every token, whatever its length
extract_tokens_unfiltered(slf, q) == Range(split(lower(q)))

\* a tokenizer that keeps only the tokens longer than the minimum
extract_tokens_strict(slf, q) ==
    {token \in Range(split(lower(q))) : Len(token) > slf.min_token_length}

\* SimpleFilterRanker._extract_tokens
_extract_tokens(slf, q) ==
    {token \in Range(split(lower(q))) : Len(token) >= slf.min_token_length}

\* Python's `tok in text` for strs
IsSubstring(tok, text) ==
    \E i \in 0..(Len(text) - Len(tok)) : SubSeq(text, i + 1, i + Len(tok)) = tok

\* SimpleFilterRanker._has_any_token
_has_any_token(text, toks) ==
    LET lower_text == lower(text)
    IN  \E tok \in toks : IsSubstring(tok, lower_text)

(***************************************************************************)
(* SimpleFilterRanker.rank, statement by statement.                        *)
(***************************************************************************)
Category == <<"C","a","t","e","g","o","r","y",":">>
Wikimedia == <<"W","i","k","i","m","e","d","i","a">>

\* an exclusion test made on the lower-cased title
is_category_page_lowered(title) ==
    \A x \in {Category, Wikimedia} : IsSubstring(x, lower(title))

\* all(x in title for x in ["Category:", "Wikimedia"])
is_category_page(title) ==
    \A x \in {Category, Wikimedia} : IsSubstring(x, title)

\* a fallback taken whenever the body is empty: doc.get("body") or doc.get("description", "")
body_of_nonempty(doc) ==
    IF "body" \in DOMAIN doc /\ doc["body"] # <<>> THEN doc["body"]
    ELSE Get(doc, "description", <<>>)

\* body = doc.get("body", doc.get("description", ""))
body_of(doc) == Get(doc, "body", Get(doc, "description", <<>>))

\* a default priority of 0
priority_of_zero(doc) == Get(doc, "engine_priority", Num(0))

\* priority = doc.get("engine_priority", 1)
priority_of(doc) == Get(doc, "engine_priority", Num(1))

\* the if/elif chain on hit_title and hit_body
bucket_of(doc, toks) ==
    LET hit_title == _has_any_token(Get(doc, "title", <<>>), toks)
        hit_body == _has_any_token(body_of(doc), toks)
    IN  IF hit_title /\ hit_body THEN "both"
        ELSE IF hit_title THEN "title_only"
        ELSE IF hit_body THEN "body_only"
        ELSE "neither"

\* list.insert(0, doc)
bucket_prepend(lst, doc) == <<doc>> \o lst

\* list.append
bucket_append(lst, doc) == Append(lst, doc)

EmptyGroup == [both |-> <<>>, title_only |-> <<>>, body_only |-> <<>>, neither |-> <<>>]
EmptyDict == [k \in {} |-> EmptyGroup]

\* the for loop over docs, from docs[i] on, with the dict built so far
RECURSIVE rank_loop(_, _, _, _)
rank_loop(ds, toks, i, priority_groups) ==
    IF i > Len(ds) THEN priority_groups
    ELSE
      LET doc == ds[i]
          title == Get(doc, "title", <<>>)
      IN  IF is_category_page(title)
          THEN rank_loop(ds, toks, i + 1, priority_groups)
          ELSE
            LET priority == priority_of(doc)
                initialised ==
                    IF priority \in DOMAIN priority_groups
                    THEN priority_groups
                    ELSE [k \in DOMAIN priority_groups \cup {priority} |->
                            IF k = priority THEN EmptyGroup ELSE priority_groups[k]]
                b == bucket_of(doc, toks)
            IN  rank_loop(ds, toks, i + 1,
                          [initialised EXCEPT ![priority][b] = bucket_append(@, doc)])

\* descending order of a set of mutually comparable keys
RECURSIVE SortDesc(_)
SortDesc(keys) ==
    IF keys = {} THEN <<>>
    ELSE IF Cardinality(keys) = 1 THEN <<CHOOSE k \in keys : TRUE>>
    ELSE LET m == CHOOSE k \in keys : \A j \in keys : Val(j) <= Val(k)
         IN  <<m>> \o SortDesc(keys \ {m})

\* ascending order of a set of mutually comparable keys
RECURSIVE SortAsc(_)
SortAsc(keys) ==
    IF keys = {} THEN <<>>
    ELSE IF Cardinality(keys) = 1 THEN <<CHOOSE k \in keys : TRUE>>
    ELSE LET m == CHOOSE k \in keys : \A j \in keys : Val(k) <= Val(j)
         IN  <<m>> \o SortAsc(keys \ {m})

\* sorted(priority_groups.keys()) without reverse=True
sorted_keys_ascending(keys) ==
    IF None \in keys /\ Cardinality(keys) > 1
    THEN [exc |-> "TypeError", value |-> <<>>]
    ELSE [exc |-> "", value |-> SortAsc(keys)]

\* sorted(priority_groups.keys(), reverse=True): comparing None with a number
\* raises TypeError; a single key is never compared
sorted_keys(keys) ==
    IF None \in keys /\ Cardinality(keys) > 1
    THEN [exc |-> "TypeError", value |-> <<>>]
    ELSE [exc |-> "", value |-> SortDesc(keys)]

\* the extend calls with body_only emitted before title_only
extend_group_body_first(final_results, group) ==
    final_results \o group.both \o group.body_only \o group.title_only \o group.neither

\* the extend calls with "both" extended twice and title_only never
extend_group_both_twice(final_results, group) ==
    final_results \o group.both \o group.both \o group.body_only \o group.neither

\* the four final_results.extend calls for one group
extend_group(final_results, group) ==
    final_results \o group.both \o group.title_only \o group.body_only \o group.neither

RECURSIVE build_final(_, _, _)
build_final(priority_groups, order, i) ==
    IF i > Len(order) THEN <<>>
    ELSE extend_group(<<>>, priority_groups[order[i]])
         \o build_final(priority_groups, order, i + 1)

rank(slf, ds, q) ==
    LET toks == _extract_tokens(slf, q)
        priority_groups == rank_loop(ds, toks, 1, EmptyDict)
        order == sorted_keys(DOMAIN priority_groups)
    IN  IF order.exc # "" THEN [exc |-> order.exc, value |-> <<>>]
        ELSE [exc |-> "", value |-> build_final(priority_groups, order.value, 1)]

\* a rank that writes its result back into the caller's list (docs[:] = final_results)
RankCallInPlace(slf, ds, q) ==
    [ret |-> rank(slf, ds, q), docs |-> rank(slf, ds, q).value, self |-> slf]

\* everything a call of rank can touch: what it returns (or raises), the
\* caller's list and the ranker object
RankCall(slf, ds, q) == [ret |-> rank(slf, ds, q), docs |-> ds, self |-> slf]

(***************************************************************************)
(* Inputs.  Texts the records and the queries are made of.                 *)
(***************************************************************************)
Cat == <<"C","a","t">>
cat == <<"c","a","t">>
Dog == <<"D","o","g">>
dog == <<"d","o","g">>
a_cat == <<"a"," ","c","a","t">>
CategoryWikimedia == Category \o Wikimedia
category_wikimedia == lower(CategoryWikimedia)

Pool ==
    { [href |-> <<"a">>, title |-> Cat, body |-> cat, engine_priority |-> Num(3)],
      [href |-> <<"b">>, title |-> Cat, body |-> dog],
      [href |-> <<"c">>, title |-> Dog, body |-> <<>>, description |-> cat,
       engine_priority |-> Num(1)],
      [href |-> <<"d">>, title |-> Dog, description |-> a_cat],
      [href |-> <<"e">>, title |-> CategoryWikimedia, body |-> cat,
       engine_priority |-> Num(3)],
      [href |-> <<"f">>, title |-> category_wikimedia, engine_priority |-> Num(2)],
      [href |-> <<"g">>],
      [href |-> <<"h">>, title |-> Dog, body |-> dog, engine_priority |-> None],
      [href |-> <<"i">>, title |-> Wikimedia, body |-> CategoryWikimedia \o a_cat,
       engine_priority |-> Num(0), engine_name |-> <<"w">>] }

DocLists == UNION {[1..n -> Pool] : n \in 0..MaxDocs}

Queries == { <<>>, <<" ">>, <<"c","a">>, cat, <<"C","A","T"," ","d","o","g">> }

MinLens == 0..DefaultMinTokenLength

\* queries for the tokenizer alone: every str over a small alphabet
TokChars == {"A", "a", "b", " "}
TokQueries == UNION {[1..n -> TokChars] : n \in 0..MaxQueryLen}

NoReturn == [exc |-> "", value |-> <<>>]

(***************************************************************************)
(* The ranker in use: a ranker is constructed, the caller holds a list of  *)
(* candidates, and rank is called on it any number of times.               *)
(***************************************************************************)
Init ==
    /\ self \in {NewRanker(m) : m \in MinLens}
    /\ docs \in DocLists
    /\ query = <<>>
    /\ tokens = {}
    /\ ret = NoReturn
    /\ called = FALSE

Rank(q) ==
    \E r \in {RankCall(self, docs, q)} :
        /\ ret' = r.ret
        /\ docs' = r.docs
        /\ self' = r.self
        /\ query' = q
        /\ tokens' = _extract_tokens(self, q)
        /\ called' = TRUE

Next == \E q \in Queries : Rank(q)

Spec == Init /\ [][Next]_vars

(***************************************************************************)
(* The tokenizer alone, on every query of TokQueries.                      *)
(***************************************************************************)
InitTok ==
    /\ self \in {NewRanker(m) : m \in MinLens}
    /\ docs = <<>>
    /\ query = <<>>
    /\ tokens = {}
    /\ ret = NoReturn
    /\ called = FALSE

ExtractTokens(q) ==
    /\ query' = q
    /\ tokens' = _extract_tokens(self, q)
    /\ called' = TRUE
    /\ UNCHANGED <<self, docs, ret>>

NextTok == \E q \in TokQueries : ExtractTokens(q)

SpecTok == InitTok /\ [][NextTok]_vars

(***************************************************************************)
(* Vocabulary of the properties.                                           *)
(***************************************************************************)
Out == ret.value
Returned == called /\ ret.exc = ""

Excluded(d) ==
    /\ "title" \in DOMAIN d
    /\ IsSubstring(Category, d.title)
    /\ IsSubstring(Wikimedia, d.title)

Survivors == SelectSeq(docs, LAMBDA d : ~Excluded(d))

\* the priority of a record, 1 when the field is absent
Priority(d) == IF "engine_priority" \in DOMAIN d THEN d.engine_priority ELSE Num(1)
Higher(p, q) == p # None /\ q # None /\ Val(p) > Val(q)

\* a field is hit when its lower-cased text contains a query term
Hit(text) == \E t \in tokens : IsSubstring(t, lower(text))
Title(d) == IF "title" \in DOMAIN d THEN d.title ELSE <<>>

\* position of a record's bucket in the order both, titleOnly, bodyOnly, neither,
\* given whether its title and its body are hit
BucketRank(hitTitle, hitBody) ==
    IF hitTitle /\ hitBody THEN 1
    ELSE IF hitTitle THEN 2
    ELSE IF hitBody THEN 3
    ELSE 4

BucketRankOf(d) == BucketRank(Hit(Title(d)), Hit(body_of(d)))

Count(seq, d) == Cardinality({i \in 1..Len(seq) : seq[i] = d})

\* the maximal runs of word characters of s
Runs(s) ==
    {SubSeq(s, ij[1], ij[2]) : ij \in
        {ij \in (1..Len(s)) \X (1..Len(s)) :
            /\ ij[1] <= ij[2]
            /\ \A k \in ij[1]..ij[2] : IsWordChar(s[k])
            /\ (ij[1] = 1 \/ ~IsWordChar(s[ij[1] - 1]))
            /\ (ij[2] = Len(s) \/ ~IsWordChar(s[ij[2] + 1]))}}

\* the terms the tokenizer is specified to return
Terms(q, minLength) == {r \in Runs(lower(q)) : Len(r) >= minLength}

(***************************************************************************)
(* C1.  In the list rank returns, every record with a higher priority      *)
(* (1 when the field is absent) comes before every record with a lower     *)
(* priority, whatever the texts and the input positions.                   *)
(***************************************************************************)
C1_PriorityOrder ==
    Returned =>
        \A i, j \in 1..Len(Out) :
            Higher(Priority(Out[i]), Priority(Out[j])) => i < j

\* a lower-priority record with title and body hit, given first, is returned
\* after a higher-priority record with no hit
C1_Witness ==
    /\ Returned
    /\ self.min_token_length = DefaultMinTokenLength
    /\ Len(docs) >= 2 /\ Len(Out) >= 2
    /\ \E i, j \in 1..Len(docs) :
        /\ i < j
        /\ ~Excluded(docs[i]) /\ ~Excluded(docs[j])
        /\ Higher(Priority(docs[j]), Priority(docs[i]))
        /\ BucketRankOf(docs[i]) < BucketRankOf(docs[j])
        /\ \E k, l \in 1..Len(Out) : k < l /\ Out[k] = docs[j] /\ Out[l] = docs[i]

(***************************************************************************)
(* C2.  Two returned records of one priority are ordered by bucket, both   *)
(* before titleOnly before bodyOnly before neither, a field being hit      *)
(* exactly when its lower-cased text contains a query term as a substring. *)
(***************************************************************************)
C2_BucketOrder ==
    Returned =>
        \A i, j \in 1..Len(Out) :
            (Priority(Out[i]) = Priority(Out[j])
             /\ BucketRankOf(Out[i]) < BucketRankOf(Out[j])) => i < j

\* one priority group returned with three different buckets, one of them
\* hit through a partial word
C2_Witness ==
    /\ Returned
    /\ self.min_token_length = DefaultMinTokenLength
    /\ Len(Out) = 3
    /\ \A i, j \in 1..3 : Priority(Out[i]) = Priority(Out[j])
    /\ BucketRankOf(Out[1]) < BucketRankOf(Out[2])
    /\ BucketRankOf(Out[2]) < BucketRankOf(Out[3])
    /\ Out # docs

(***************************************************************************)
(* C3.  rank is a stable partition: the returned records of one priority   *)
(* and one bucket are in the order they have in the input.                 *)
(***************************************************************************)
C3_Stable ==
    Returned =>
        \A d \in Range(Out) :
            LET same(x) == Priority(x) = Priority(d) /\ BucketRankOf(x) = BucketRankOf(d)
            IN  SelectSeq(Out, same) = SelectSeq(Survivors, same)

\* two different records of one priority and one bucket, with a token hit,
\* returned in their input order while the list as a whole was reordered
C3_Witness ==
    /\ Returned
    /\ self.min_token_length = DefaultMinTokenLength
    /\ tokens # {}
    /\ Out # Survivors
    /\ \E i, j \in 1..Len(Out) :
        /\ i < j
        /\ Out[i] # Out[j]
        /\ Priority(Out[i]) = Priority(Out[j])
        /\ BucketRankOf(Out[i]) = BucketRankOf(Out[j])

(***************************************************************************)
(* C4.  Conservation: the returned list is a permutation of the input      *)
(* records that the Category:/Wikimedia rule does not exclude; nothing is  *)
(* duplicated, fabricated or altered.                                      *)
(***************************************************************************)
C4_Conservation ==
    Returned =>
        /\ Len(Out) = Len(docs) - Cardinality({i \in 1..Len(docs) : Excluded(docs[i])})
        /\ \A d \in Range(docs) \cup Range(Out) :
            Count(Out, d) = IF Excluded(d) THEN 0 ELSE Count(docs, d)

\* an input with a record given twice, an excluded record and a record
\* carrying an extra field
C4_Witness ==
    /\ Returned
    /\ self.min_token_length = DefaultMinTokenLength
    /\ \E d \in Range(docs) : Count(docs, d) = 2 /\ Count(Out, d) = 2
    /\ \E d \in Range(docs) : Excluded(d)
    /\ Len(Out) = Len(docs) - 1

(***************************************************************************)
(* C5.  A record whose title contains both "Category:" and "Wikimedia"     *)
(* (case-sensitive) is never returned, whatever the query, its priority    *)
(* and its hits; the rule looks at the title only, so a record whose body  *)
(* alone carries the two substrings, or whose title carries them in lower  *)
(* case, is returned.                                                      *)
(***************************************************************************)
C5_Exclusion ==
    Returned =>
        /\ \A i \in 1..Len(Out) : ~Excluded(Out[i])
        /\ \A i \in 1..Len(docs) : ~Excluded(docs[i]) => docs[i] \in Range(Out)

\* an excluded record of the highest priority, hit in title and body, is
\* dropped while a record with the two substrings in its body is returned
C5_Witness ==
    /\ Returned
    /\ self.min_token_length = DefaultMinTokenLength
    /\ \E i \in 1..Len(docs) :
        /\ Excluded(docs[i])
        /\ BucketRankOf(docs[i]) = 1
        /\ \A j \in 1..Len(docs) : ~Higher(Priority(docs[j]), Priority(docs[i]))
    /\ \E i \in 1..Len(Out) :
        /\ IsSubstring(Category, body_of(Out[i]))
        /\ IsSubstring(Wikimedia, body_of(Out[i]))

(***************************************************************************)
(* C6.  Empty query.  As claimed: for a query that is empty, made only of  *)
(* delimiters or made only of tokens shorter than the minimum length, rank *)
(* returns the candidates in their original input order, with only the     *)
(* excluded records removed.                                               *)
(***************************************************************************)
NoTerm == \A r \in Runs(lower(query)) : Len(r) < self.min_token_length

C6_OriginalOrder == (Returned /\ NoTerm) => Out = Survivors

(***************************************************************************)
(* C6, amended.  For such a query rank returns the records that are not    *)
(* excluded grouped by priority, highest first, and in their original      *)
(* input order within each priority.                                       *)
(***************************************************************************)
C6_PriorityThenInputOrder ==
    (Returned /\ NoTerm) =>
        /\ Len(Out) = Len(Survivors)
        /\ \A i, j \in 1..Len(Out) :
            Higher(Priority(Out[i]), Priority(Out[j])) => i < j
        /\ \A d \in Range(Survivors) :
            LET same(x) == Priority(x) = Priority(d)
            IN  SelectSeq(Out, same) = SelectSeq(Survivors, same)

\* a query of too-short tokens only, on a list whose priorities are not in
\* descending order: the result is not the input order
C6_Witness ==
    /\ Returned /\ NoTerm
    /\ query # <<>>
    /\ \E i \in 1..Len(query) : IsWordChar(query[i])
    /\ Len(Out) = 3
    /\ Out # Survivors
    /\ \E i, j \in 1..Len(Out) : i < j /\ Out[i] # Out[j] /\ Priority(Out[i]) = Priority(Out[j])

(***************************************************************************)
(* C7.  As claimed: the text matched as the body is the record's body when *)
(* present and non-empty, otherwise its description when present,          *)
(* otherwise the empty string.                                             *)
(***************************************************************************)
BodyIfNonEmpty(d) ==
    IF "body" \in DOMAIN d /\ d.body # <<>> THEN d.body
    ELSE IF "description" \in DOMAIN d THEN d.description
    ELSE <<>>

C7_BodyIfNonEmpty ==
    Returned =>
        \A i, j \in 1..Len(Out) :
            (Priority(Out[i]) = Priority(Out[j])
             /\ BucketRank(Hit(Title(Out[i])), Hit(BodyIfNonEmpty(Out[i])))
                  < BucketRank(Hit(Title(Out[j])), Hit(BodyIfNonEmpty(Out[j])))) => i < j

(***************************************************************************)
(* C7, amended.  The text matched as the body is the record's body when    *)
(* the record has a body field, even an empty one; otherwise its           *)
(* description when it has one; otherwise the empty string.  A record with *)
(* an empty body and a description containing a query term is not a body   *)
(* hit; a record with no body field and such a description is.             *)
(***************************************************************************)
BodyIfPresent(d) ==
    IF "body" \in DOMAIN d THEN d.body
    ELSE IF "description" \in DOMAIN d THEN d.description
    ELSE <<>>

C7_BodyIfPresent ==
    Returned =>
        \A i, j \in 1..Len(Out) :
            (Priority(Out[i]) = Priority(Out[j])
             /\ BucketRank(Hit(Title(Out[i])), Hit(BodyIfPresent(Out[i])))
                  < BucketRank(Hit(Title(Out[j])), Hit(BodyIfPresent(Out[j])))) => i < j

\* a record with no body and a description that is hit overtakes a record
\* with no hit, and a record with an empty body and the same kind of
\* description does not
C7_Witness ==
    /\ Returned
    /\ self.min_token_length = DefaultMinTokenLength
    /\ Len(docs) = 3 /\ Len(Out) = 3
    /\ \A i, j \in 1..3 : Priority(Out[i]) = Priority(Out[j])
    /\ "body" \notin DOMAIN docs[3] /\ "description" \in DOMAIN docs[3]
    /\ Hit(docs[3].description) /\ ~Hit(Title(docs[3]))
    /\ Out[1] = docs[3]
    /\ "body" \in DOMAIN docs[2] /\ docs[2].body = <<>>
    /\ "description" \in DOMAIN docs[2] /\ Hit(docs[2].description)
    /\ ~Hit(Title(docs[2]))
    /\ ~Hit(Title(docs[1])) /\ ~Hit(BodyIfPresent(docs[1]))
    /\ Out[2] = docs[1] /\ Out[3] = docs[2]

(***************************************************************************)
(* C8.  As claimed: rank never raises; a record whose priority field is    *)
(* missing or null is ranked as priority 1, in one group with the records  *)
(* whose priority is explicitly 1; the empty list yields the empty list.   *)
(***************************************************************************)
MissingOrNullAsOne(d) ==
    IF "engine_priority" \notin DOMAIN d THEN 1
    ELSE IF d.engine_priority = None THEN 1
    ELSE Val(d.engine_priority)

Missing(d) == "engine_priority" \notin DOMAIN d
MissingAsOne(d) == IF Missing(d) THEN 1 ELSE Val(d.engine_priority)

C9_ExactlyTheRuns ==
    called => tokens = Terms(query, self.min_token_length)

(***************************************************************************)
(* C9, amended.  For every query and every minimum length of at least 1    *)
(* the tokenizer returns exactly that set.  For a minimum length of 0 or   *)
(* less it returns that set and, when the query is empty or begins or ends *)
(* with a delimiter, the empty string as well.                             *)
(***************************************************************************)
EdgePiece(q) == q = <<>> \/ ~IsWordChar(q[1]) \/ ~IsWordChar(q[Len(q)])

C9_RunsAndEdgePiece ==
    called =>
        tokens = Terms(query, self.min_token_length)
                   \cup (IF self.min_token_length <= 0 /\ EdgePiece(query)
                         THEN {<<>>} ELSE {})

\* a query of two runs that differ in case only: one token, lower-cased, of
\* exactly the minimum length
C9_Witness ==
    /\ called
    /\ self.min_token_length = 1
    /\ Len(query) = 3
    /\ query[1] = "A" /\ ~IsWordChar(query[2]) /\ query[3] = "a"
    /\ tokens = {<<"a">>}

====
